---- MODULE Spec2Model ----
(***************************************************************************)
(* Geo Shade Builder (src/src/App.jsx): the selection store, the overlay   *)
(* synchronisation effects, the settings resolver and the save client of   *)
(* the App component, as a state machine.  One action per event handler,   *)
(* asynchronous completion or mount; an action that changes React state    *)
(* includes the effects React re-runs for the dependencies that changed.   *)
(* Text values are sequences of one-character strings, so that trimming    *)
(* and emptiness are computed as the code computes them.                   *)
(***************************************************************************)
EXTENDS Integers, Sequences, FiniteSets, Bags, TLC

\* ------------------------------------------------------------------ bounds
\* most boundary fetches in flight at once
MaxFetches == 2
\* most marker lookups in flight at once (Spec)
MaxLookups == 3
\* most marker lookups in flight at once (SpecCounty)
MaxLookupsBurst == 14
\* most marker lookups in flight at once (SpecPolygons)
MaxLookupsClicks == 1
\* most requests of any kind in flight at once (SpecClicks)
MaxPending == 2
\* most click listeners registered on map.data at once
MaxListeners == 2
\* most pending timers that clear the hint
MaxTimers == 2
\* most reverse-geocode lookups of base-map clicks in flight at once
MaxGeocodes == 2
\* most list GETs of loadSaved in flight at once
MaxListGets == 1
\* most records the backend stores
MaxStore == 2
\* longest text typed into the name input
MaxNameLen == 2
\* longest text typed into a settings input
MaxTypedLen == 2

\* ------------------------------------------------------- program constants
\* selectedItems.slice(0, 12)
MarkerCap == 12

\* codes of the checklists (a part of stateOptions and of countyOptions)
StateCodes == {"CA"}
CountyCodes == {"06075", "06037"}

Levels == {"state", "county"}

\* ------------------------------------------------------------------- text
NoText == <<>>
Chars == {" ", "x"}

\* all texts over alphabet A of length at most n
TextsUpTo(A, n) == UNION {[1..k -> A] : k \in 0..n}

IsSpace(ch) == ch = " "

RECURSIVE TrimStart(_)
TrimStart(s) ==
    IF s = <<>> THEN <<>>
    ELSE IF IsSpace(Head(s)) THEN TrimStart(Tail(s)) ELSE s

RECURSIVE TrimEnd(_)
TrimEnd(s) ==
    IF s = <<>> THEN <<>>
    ELSE IF IsSpace(s[Len(s)]) THEN TrimEnd(SubSeq(s, 1, Len(s) - 1)) ELSE s

\* String.prototype.trim
trim(s) == TrimEnd(TrimStart(s))

\* JavaScript truthiness of a string or null (null is modelled as the empty text)
Truthy(s) == s # <<>>

\* a || b || c || ''
OrElse3(a, b, c) == IF Truthy(a) THEN a ELSE IF Truthy(b) THEN b ELSE IF Truthy(c) THEN c ELSE NoText

\* a || b || ''
OrElse2(a, b) == IF Truthy(a) THEN a ELSE IF Truthy(b) THEN b ELSE NoText

\* String.prototype.includes on the key part of the script URL
includes(src, key) ==
    \E i \in 1..(Len(src) + 1) :
        /\ i + Len(key) - 1 <= Len(src)
        /\ SubSeq(src, i, i + Len(key) - 1) = key

Range(s) == {s[i] : i \in 1..Len(s)}

Min(a, b) == IF a <= b THEN a ELSE b

RECURSIVE SeqToBag(_)
SeqToBag(s) == IF s = <<>> THEN EmptyBag ELSE SetToBag({Head(s)}) (+) SeqToBag(Tail(s))

OneOf(x) == SetToBag({x})

\* ------------------------------------------------------------------ state
VARIABLES
    env,                  \* import.meta.env: VITE_GOOGLE_MAPS_API_KEY, VITE_BACKEND_URL
    localStorage,         \* gmaps_api_key, backend_url
    params,               \* URL query parameters gmaps_key, backend
    mounted,              \* the component has rendered once
    apiKey, backendUrl,   \* useSettings state
    scriptKey,            \* key of the injected google-maps script, <<>> when none
    mapsLoaded,           \* useGoogleMaps state
    mapInstance,          \* mapInstance.current is set
    level, selectedItems, name, saving, saved,
    saveReq,              \* where saveSelection is suspended: none, POST or GET
    serverStore,          \* ids of the records the backend holds
    listGets,             \* list GETs of loadSaved in flight
    alertMsg,             \* the alert() raised by the last step, "" when none
    dataFeatures,         \* number of boundary feature sets in map.data
    dataStyle,            \* map.data style: none, or the closure over selectedItems
    dataClickListenerRef, \* dataClickListenerRef.current is set
    dataListeners,        \* click listeners registered on map.data
    geojsonLoadedRef,
    geoFetches,           \* ensureGeoJsonLoaded calls in flight, by captured selectedItems
    drawingLayer,         \* titles of the markers in drawingLayer.current (all on the map)
    markerLookups,        \* marker geocode lookups in flight, by code
    hint,                 \* the hint shown, "" when none (the code in its text is left out)
    hintTimers,           \* pending setTimeout(() => setHint(''))
    revGeocodes,          \* reverse geocodes of base-map clicks in flight, by geocodeFor
    boundaryLoaded,       \* history: a boundary fetch has succeeded in this session
    last                  \* history: the last step taken and the selection before it

settingsVars == <<env, localStorage, params, mounted, apiKey, backendUrl>>
gmapVars == <<scriptKey, mapsLoaded, mapInstance>>
storeVars == <<level, selectedItems>>
saveVars == <<saving, saved, saveReq, serverStore, listGets>>
dataVars == <<dataFeatures, dataStyle, dataClickListenerRef, dataListeners, geojsonLoadedRef, geoFetches>>
markerVars == <<drawingLayer, markerLookups>>
hintVars == <<hint, hintTimers>>
vars == <<settingsVars, gmapVars, storeVars, name, saveVars, alertMsg, dataVars, markerVars, hintVars,
         revGeocodes, boundaryLoaded, last>>

\* values a setting source may hold: absent, or a value that names its source
EnvValues == {NoText, <<"B">>}
StoredValues == {NoText, <<"P">>}
UrlValues == {NoText, <<"U">>}

NoStyle == [fn |-> FALSE, selectedItems |-> <<>>]
StyleOf(sel) == [fn |-> TRUE, selectedItems |-> sel]

Step(op, code) == [op |-> op, code |-> code, pre |-> selectedItems, twice |-> FALSE]

\* 'My Selection'
DefaultName == <<"M", "y", " ", "S", "e", "l", "e", "c", "t", "i", "o", "n">>

\* the state before the first render, given the three sources of each setting
InitWith(e, ls, p) ==
    /\ env = e
    /\ localStorage = ls
    /\ params = p
    /\ mounted = FALSE
    /\ apiKey = NoText
    /\ backendUrl = NoText
    /\ scriptKey = NoText
    /\ mapsLoaded = FALSE
    /\ mapInstance = FALSE
    /\ level = "state"
    /\ selectedItems = <<>>
    /\ name = DefaultName
    /\ saving = FALSE
    /\ saved = <<>>
    /\ saveReq = "none"
    /\ serverStore = <<>>
    /\ listGets = 0
    /\ alertMsg = ""
    /\ dataFeatures = 0
    /\ dataStyle = NoStyle
    /\ dataClickListenerRef = FALSE
    /\ dataListeners = 0
    /\ geojsonLoadedRef = FALSE
    /\ geoFetches = EmptyBag
    /\ drawingLayer = EmptyBag
    /\ markerLookups = EmptyBag
    /\ hint = ""
    /\ hintTimers = 0
    /\ revGeocodes = EmptyBag
    /\ boundaryLoaded = FALSE
    /\ last = [op |-> "init", code |-> "", pre |-> <<>>, twice |-> FALSE]

\* ---------------------------------------------------------------- settings
initialApiKey(e, ls, p) == OrElse3(e.VITE_GOOGLE_MAPS_API_KEY, ls.gmaps_api_key, p.gmaps_key)

initialBackend(e, ls, p) == OrElse2(e.VITE_BACKEND_URL, ls.backend_url)

\* persist effects without the if (apiKey) / if (backendUrl) tests
persist_blank(ls, k, b) == [gmaps_api_key |-> k, backend_url |-> b]

\* the two "Persist changes" effects, run for the values k and b
persist(ls, k, b) ==
    [gmaps_api_key |-> IF Truthy(k) THEN k ELSE ls.gmaps_api_key,
     backend_url |-> IF Truthy(b) THEN b ELSE ls.backend_url]

\* useGoogleMaps effect for apiKey k: the key of the script tag afterwards
useGoogleMaps(loaded, script, k) ==
    IF loaded THEN script
    ELSE IF ~Truthy(k) THEN script
    ELSE IF Truthy(script) /\ includes(script, k) THEN script
    ELSE k

\* the loadSaved effect for backend b: the list GETs in flight afterwards
loadSaved(gets, b) == IF ~Truthy(b) THEN gets ELSE gets + 1


\* ------------------------------------------------------------------ effects
\* ensureGeoJsonLoaded without its guard
alreadyLoaded_never(ref) == FALSE

\* the guard of ensureGeoJsonLoaded: if (geojsonLoadedRef.current) return
alreadyLoaded(ref) == ref

\* the state polygon effect (deps mapsLoaded, level, selectedItems), run with
\* the values ml, lv, sel of the render it belongs to
PolygonEffect(ml, lv, sel) ==
    IF ~ml
    THEN UNCHANGED dataVars
    ELSE LET kept == IF dataClickListenerRef THEN dataListeners - 1 ELSE dataListeners
         IN /\ dataFeatures' = 0
            /\ IF lv # "state"
               THEN /\ geojsonLoadedRef' = FALSE
                    /\ dataStyle' = NoStyle
                    /\ dataClickListenerRef' = FALSE
                    /\ dataListeners' = kept
                    /\ UNCHANGED geoFetches
               ELSE IF alreadyLoaded(geojsonLoadedRef)
               THEN \* ensureGeoJsonLoaded returns at once; its continuation runs
                    /\ dataStyle' = StyleOf(sel)
                    /\ dataClickListenerRef' = TRUE
                    /\ dataListeners' = kept + 1
                    /\ dataListeners' <= MaxListeners
                    /\ UNCHANGED <<geojsonLoadedRef, geoFetches>>
               ELSE /\ BagCardinality(geoFetches) < MaxFetches
                    /\ geoFetches' = geoFetches (+) OneOf(sel)
                    /\ dataStyle' = NoStyle
                    /\ dataClickListenerRef' = FALSE
                    /\ dataListeners' = kept
                    /\ UNCHANGED geojsonLoadedRef

\* the county marker effect (deps mapsLoaded, level, selectedItems); at most
\* inFlight lookups are explored in flight
MarkerEffect(ml, lv, sel, inFlight) ==
    IF ~ml
    THEN UNCHANGED markerVars
    ELSE IF lv = "state"
    THEN /\ drawingLayer' = EmptyBag
         /\ UNCHANGED markerLookups
    ELSE LET items == SubSeq(sel, 1, Min(Len(sel), MarkerCap))
         IN /\ drawingLayer' = EmptyBag
            /\ markerLookups' = markerLookups (+) SeqToBag(items)
            /\ BagCardinality(markerLookups') <= inFlight

\* the effects that depend on mapsLoaded, level or selectedItems
SyncPass(ml, lv, sel, inFlight) ==
    /\ PolygonEffect(ml, lv, sel)
    /\ MarkerEffect(ml, lv, sel, inFlight)

\* ------------------------------------------------------------------- mount
\* first render: useSettings resolves both settings, then the mount effects
Mount ==
    /\ ~mounted
    /\ mounted' = TRUE
    /\ apiKey' = initialApiKey(env, localStorage, params)
    /\ backendUrl' = initialBackend(env, localStorage, params)
    /\ localStorage' = persist(localStorage, apiKey', backendUrl')
    /\ scriptKey' = useGoogleMaps(mapsLoaded, scriptKey, apiKey')
    /\ listGets' = loadSaved(listGets, backendUrl')
    /\ alertMsg' = ""
    /\ last' = Step("mount", "")
    /\ UNCHANGED <<boundaryLoaded, hintVars, revGeocodes>>
    /\ UNCHANGED <<env, params, mapsLoaded, mapInstance, storeVars, name, saving, saved,
                   saveReq, serverStore, dataVars, markerVars>>

\* onChange of the API key input: setApiKey(e.target.value.trim())
SetApiKey(typed) ==
    /\ mounted
    /\ apiKey' = trim(typed)
    /\ IF apiKey' = apiKey
       THEN UNCHANGED <<localStorage, scriptKey>>
       ELSE /\ localStorage' = persist(localStorage, apiKey', NoText)
            /\ scriptKey' = useGoogleMaps(mapsLoaded, scriptKey, apiKey')
    /\ alertMsg' = ""
    /\ last' = Step("setApiKey", "")
    /\ UNCHANGED <<boundaryLoaded, hintVars, revGeocodes>>
    /\ UNCHANGED <<env, params, mounted, backendUrl, mapsLoaded, mapInstance, storeVars, name,
                   saveVars, dataVars, markerVars>>

\* onChange of the backend URL input: setBackendUrl(e.target.value.trim())
SetBackendUrl(typed) ==
    /\ mounted
    /\ backendUrl' = trim(typed)
    /\ IF backendUrl' = backendUrl
       THEN UNCHANGED <<localStorage, listGets>>
       ELSE /\ localStorage' = persist(localStorage, NoText, backendUrl')
            /\ listGets' = loadSaved(listGets, backendUrl')
            /\ listGets' <= MaxListGets
    /\ alertMsg' = ""
    /\ last' = Step("setBackendUrl", "")
    /\ UNCHANGED <<boundaryLoaded, hintVars, revGeocodes>>
    /\ UNCHANGED <<env, params, mounted, apiKey, gmapVars, storeVars, name, saving, saved,
                   saveReq, serverStore, dataVars, markerVars>>

\* loadSaved: the list GET answers with the array of records
LoadSavedOk ==
    /\ listGets > 0
    /\ listGets' = listGets - 1
    /\ saved' = serverStore
    /\ alertMsg' = ""
    /\ last' = Step("loadSavedOk", "")
    /\ UNCHANGED <<boundaryLoaded, hintVars, revGeocodes>>
    /\ UNCHANGED <<settingsVars, gmapVars, storeVars, name, saving, saveReq, serverStore,
                   dataVars, markerVars>>

\* loadSaved: the list GET fails, or answers with something that is no array
LoadSavedFail ==
    /\ listGets > 0
    /\ listGets' = listGets - 1
    /\ alertMsg' = ""
    /\ last' = Step("loadSavedFail", "")
    /\ UNCHANGED <<boundaryLoaded, hintVars, revGeocodes>>
    /\ UNCHANGED <<settingsVars, gmapVars, storeVars, name, saving, saved, saveReq,
                   serverStore, dataVars, markerVars>>

\* ---------------------------------------------------------- selection store
\* the codes of the checklist shown at level lv
Options(lv) == IF lv = "state" THEN StateCodes ELSE CountyCodes

\* toggleItem that appends the code whether or not it is present
toggleItem_append(prev, code) == Append(prev, code)

\* toggleItem without the removal of a code that is present
toggleItem_keeps(prev, code) == IF code \in Range(prev) THEN prev ELSE Append(prev, code)

\* the updater of toggleItem: prev => prev.includes(code) ? prev.filter(...) : [...prev, code]
toggleItem(prev, code) ==
    IF code \in Range(prev)
    THEN SelectSeq(prev, LAMBDA c : c # code)
    ELSE Append(prev, code)

\* a level selector that forgets setSelectedItems([])
levelChangeItems_keeps(prev) == prev

\* the selection the level selector sets: setSelectedItems([])
levelChangeItems(prev) == <<>>

\* a checklist checkbox or the x of a chip: toggleItem(code)
ToggleItem(code, inFlight) ==
    /\ mounted
    /\ code \in Options(level) \cup Range(selectedItems)
    /\ selectedItems' = toggleItem(selectedItems, code)
    /\ SyncPass(mapsLoaded, level, selectedItems', inFlight)
    /\ alertMsg' = ""
    /\ last' = [op |-> "toggle", code |-> code, pre |-> selectedItems,
                twice |-> (last.op = "toggle" /\ last.code = code)]
    /\ UNCHANGED <<boundaryLoaded, hintVars, revGeocodes>>
    /\ UNCHANGED <<settingsVars, gmapVars, level, name, saveVars>>

\* 'Clear all': setSelectedItems([])
ClearAll(inFlight) ==
    /\ mounted
    /\ selectedItems' = <<>>
    /\ SyncPass(mapsLoaded, level, selectedItems', inFlight)
    /\ alertMsg' = ""
    /\ last' = Step("clearAll", "")
    /\ UNCHANGED <<boundaryLoaded, hintVars, revGeocodes>>
    /\ UNCHANGED <<settingsVars, gmapVars, level, name, saveVars>>

\* onChange of the level selector: setLevel(value); setSelectedItems([])
SetLevel(lv, inFlight) ==
    /\ mounted
    /\ lv # level
    /\ level' = lv
    /\ selectedItems' = levelChangeItems(selectedItems)
    /\ SyncPass(mapsLoaded, level', selectedItems', inFlight)
    /\ alertMsg' = ""
    /\ last' = Step("setLevel", "")
    /\ UNCHANGED <<boundaryLoaded, hintVars, revGeocodes>>
    /\ UNCHANGED <<settingsVars, gmapVars, name, saveVars>>

\* onChange of the name input: setName(e.target.value)
SetName(typed) ==
    /\ mounted
    /\ name' = typed
    /\ alertMsg' = ""
    /\ last' = Step("setName", "")
    /\ UNCHANGED <<boundaryLoaded, hintVars, revGeocodes>>
    /\ UNCHANGED <<settingsVars, gmapVars, storeVars, saveVars, dataVars, markerVars>>

\* --------------------------------------------------------------------- map
\* the google-maps script loads: setLoaded(true), the map is created, and the
\* effects that depend on mapsLoaded run
MapsLoaded(inFlight) ==
    /\ mounted
    /\ Truthy(scriptKey)
    /\ ~mapsLoaded
    /\ mapsLoaded' = TRUE
    /\ mapInstance' = TRUE
    /\ SyncPass(mapsLoaded', level, selectedItems, inFlight)
    /\ alertMsg' = ""
    /\ last' = Step("mapsLoaded", "")
    /\ UNCHANGED <<boundaryLoaded, hintVars, revGeocodes>>
    /\ UNCHANGED <<settingsVars, scriptKey, storeVars, name, saveVars>>

\* setHint(text) followed by timers calls of setTimeout(() => setHint(''), ...)
ShowHint(text, timers) ==
    /\ hint' = text
    /\ hintTimers' = hintTimers + timers
    /\ hintTimers' <= MaxTimers

\* a timer set with a hint fires: setHint('')
HintExpire ==
    /\ hintTimers > 0
    /\ hintTimers' = hintTimers - 1
    /\ hint' = ""
    /\ alertMsg' = ""
    /\ last' = Step("hintExpire", "")
    /\ UNCHANGED <<boundaryLoaded, revGeocodes>>
    /\ UNCHANGED <<settingsVars, gmapVars, storeVars, name, saveVars, dataVars, markerVars>>

\* the continuation of ensureGeoJsonLoaded(): setStyle over the captured
\* selectedItems, and a new click listener stored in dataClickListenerRef
PolygonContinuation(sel) ==
    /\ dataStyle' = StyleOf(sel)
    /\ dataListeners' = dataListeners + 1
    /\ dataListeners' <= MaxListeners
    /\ dataClickListenerRef' = TRUE

\* ensureGeoJsonLoaded marking the boundary data loaded whatever the outcome
loadedAfterFetch_always(ok) == TRUE

\* whether ensureGeoJsonLoaded marks the boundary data loaded after a load
loadedAfterFetch(ok) == ok

\* a boundary fetch issued with selectedItems = sel succeeds
FetchOk(sel) ==
    /\ BagIn(sel, geoFetches)
    /\ geoFetches' = geoFetches (-) OneOf(sel)
    /\ dataFeatures' = dataFeatures + 1
    /\ geojsonLoadedRef' = (geojsonLoadedRef \/ loadedAfterFetch(TRUE))
    /\ PolygonContinuation(sel)
    /\ alertMsg' = ""
    /\ last' = Step("fetchOk", "")
    /\ boundaryLoaded' = TRUE
    /\ UNCHANGED <<hintVars, revGeocodes>>
    /\ UNCHANGED <<settingsVars, gmapVars, storeVars, name, saveVars, markerVars>>

\* a boundary fetch issued with selectedItems = sel fails
FetchFail(sel) ==
    /\ BagIn(sel, geoFetches)
    /\ geoFetches' = geoFetches (-) OneOf(sel)
    /\ geojsonLoadedRef' = (geojsonLoadedRef \/ loadedAfterFetch(FALSE))
    /\ PolygonContinuation(sel)
    /\ alertMsg' = ""
    /\ ShowHint("Could not load state polygons. Check your network and try again.", 1)
    /\ last' = Step("fetchFail", "")
    /\ UNCHANGED <<boundaryLoaded, revGeocodes>>
    /\ UNCHANGED <<settingsVars, gmapVars, storeVars, name, saveVars, dataFeatures, markerVars>>

\* the geocoder answers OK for a marker lookup of code: a marker titled code
\* is put on the map and pushed to drawingLayer.current
MarkerGeocodeOk(code) ==
    /\ BagIn(code, markerLookups)
    /\ markerLookups' = markerLookups (-) OneOf(code)
    /\ drawingLayer' = drawingLayer (+) OneOf(code)
    /\ alertMsg' = ""
    /\ last' = Step("markerOk", code)
    /\ UNCHANGED <<boundaryLoaded, hintVars, revGeocodes>>
    /\ UNCHANGED <<settingsVars, gmapVars, storeVars, name, saveVars, dataVars>>

\* the geocoder answers without a result for a marker lookup of code
MarkerGeocodeFail(code) ==
    /\ BagIn(code, markerLookups)
    /\ markerLookups' = markerLookups (-) OneOf(code)
    /\ alertMsg' = ""
    /\ last' = Step("markerFail", code)
    /\ UNCHANGED <<boundaryLoaded, hintVars, revGeocodes>>
    /\ UNCHANGED <<settingsVars, gmapVars, storeVars, name, saveVars, dataVars, drawingLayer>>

\* -------------------------------------------------------------- map clicks
\* a click on the base map: the listener of the current render captures the
\* level as geocodeFor and asks the geocoder for the point
BaseClick ==
    /\ mounted
    /\ mapsLoaded /\ mapInstance
    /\ BagCardinality(revGeocodes) < MaxGeocodes
    /\ revGeocodes' = revGeocodes (+) OneOf(IF level = "state" THEN "state" ELSE "county")
    /\ alertMsg' = ""
    /\ last' = Step("baseClick", "")
    /\ UNCHANGED <<boundaryLoaded, hintVars>>
    /\ UNCHANGED <<settingsVars, gmapVars, storeVars, name, saveVars, dataVars, markerVars>>

\* long_name of a county component: its stem and the word it ends with ("" when
\* it ends with none of County, Parish, Borough)
NoComponent == [stem |-> "", ending |-> ""]
CountyEndings == {"County", "Parish", "Borough"}

\* address_components of results[0]: short_name of administrative_area_level_1
\* ("" when there is none) and the administrative_area_level_2 component
GeocodeResults ==
    {[state |-> "CA", county |-> [stem |-> "San Francisco", ending |-> "County"]],
     [state |-> "CA", county |-> [stem |-> "San Francisco", ending |-> ""]],
     [state |-> "CA", county |-> [stem |-> "Alameda", ending |-> "County"]],
     [state |-> "", county |-> NoComponent]}

\* extractStateCode: stateComp?.short_name || null
extractStateCode(components) == components.state

\* extractCountyLabel: `${countyName}, ${stateComp.short_name}`, null as NoComponent
extractCountyLabel(components) ==
    IF components.county = NoComponent \/ components.state = ""
    THEN <<>>
    ELSE <<components.county.stem,
           IF components.county.ending \in CountyEndings
           THEN components.county.ending ELSE "County",
           components.state>>

\* countyNameToFips[label], "" when the label is no key (a part of the table)
countyNameToFips(label) ==
    IF label = <<"San Francisco", "County", "CA">> THEN "06075"
    ELSE IF label = <<"Los Angeles", "County", "CA">> THEN "06037"
    ELSE ""

\* the code the callback of the base-map click toggles, "" when it toggles none
resolvedCode(geocodeFor, components) ==
    IF geocodeFor = "state"
    THEN extractStateCode(components)
    ELSE countyNameToFips(extractCountyLabel(components))

\* the hint the callback of the base-map click sets
resolvedHint(geocodeFor, components) ==
    IF geocodeFor = "state"
    THEN IF extractStateCode(components) # ""
         THEN "Toggled state" ELSE "Could not determine state here"
    ELSE IF resolvedCode(geocodeFor, components) # ""
         THEN "Toggled county"
         ELSE "Clicked county not in demo list. We will add full US counties soon."

\* the hint after a reverse geocode that failed: the callback returns at once
hintAfterGeocodeFailure(prev) == prev

\* the geocoder answers a base-map click with a status that is not OK or with
\* no result
GeocodeFailed(geocodeFor) ==
    /\ BagIn(geocodeFor, revGeocodes)
    /\ revGeocodes' = revGeocodes (-) OneOf(geocodeFor)
    /\ hint' = hintAfterGeocodeFailure(hint)
    /\ alertMsg' = ""
    /\ last' = Step("geocodeFailed", "")
    /\ UNCHANGED <<boundaryLoaded, hintTimers>>
    /\ UNCHANGED <<settingsVars, gmapVars, storeVars, name, saveVars, dataVars, markerVars>>

\* the geocoder answers a base-map click with status OK and components
GeocodeAnswered(geocodeFor, components, inFlight) ==
    /\ BagIn(geocodeFor, revGeocodes)
    /\ revGeocodes' = revGeocodes (-) OneOf(geocodeFor)
    /\ LET code == resolvedCode(geocodeFor, components)
       IN IF code # ""
          THEN /\ selectedItems' = toggleItem(selectedItems, code)
               /\ SyncPass(mapsLoaded, level, selectedItems', inFlight)
               /\ last' = [op |-> "geocodeToggled", code |-> code, pre |-> selectedItems,
                           twice |-> (last.op = "geocodeToggled" /\ last.code = code)]
          ELSE /\ UNCHANGED <<selectedItems, dataVars, markerVars>>
               /\ last' = Step("geocodeUnresolved", "")
    /\ ShowHint(resolvedHint(geocodeFor, components), 1)
    /\ alertMsg' = ""
    /\ UNCHANGED boundaryLoaded
    /\ UNCHANGED <<settingsVars, gmapVars, level, name, saveVars>>

RECURSIVE toggleTimes(_, _, _)
\* the selection after n listeners have each called toggleItem(code)
toggleTimes(prev, code, n) ==
    IF n = 0 THEN prev ELSE toggleTimes(toggleItem(prev, code), code, n - 1)

\* a click on a boundary polygon of state code: every click listener that is
\* registered on map.data runs (the base-map listener does not: the polygon
\* takes the click)
PolygonClick(code, inFlight) ==
    /\ mounted
    /\ mapsLoaded /\ mapInstance
    /\ dataFeatures > 0
    /\ dataListeners > 0
    /\ code \in StateCodes
    /\ selectedItems' = toggleTimes(selectedItems, code, dataListeners)
    /\ ShowHint("Toggled state", dataListeners)
    /\ SyncPass(mapsLoaded, level, selectedItems', inFlight)
    /\ alertMsg' = ""
    /\ last' = Step("polygonClick", code)
    /\ UNCHANGED boundaryLoaded
    /\ UNCHANGED <<settingsVars, gmapVars, level, name, saveVars, revGeocodes>>

\* -------------------------------------------------------------------- save
\* the guard of saveSelection without trim()
nameIsBlank_untrimmed(n) == ~Truthy(n)

\* the guard of saveSelection: !name.trim()
nameIsBlank(n) == ~Truthy(trim(n))

\* a Save button that stays enabled while a save is in flight
SaveEnabled_whileSaving == Len(selectedItems) # 0 /\ Truthy(backendUrl)

\* the Save button is enabled
SaveEnabled == ~saving /\ Len(selectedItems) # 0 /\ Truthy(backendUrl)

\* click on Save: saveSelection() up to its first await
SaveSelection ==
    /\ mounted
    /\ SaveEnabled
    /\ IF nameIsBlank(name)
       THEN UNCHANGED <<saving, saveReq>>
       ELSE /\ saving' = TRUE
            /\ saveReq' = "POST"
    /\ alertMsg' = ""
    /\ last' = Step("saveSelection", "")
    /\ UNCHANGED <<boundaryLoaded, hintVars, revGeocodes>>
    /\ UNCHANGED <<settingsVars, gmapVars, storeVars, name, saved, serverStore, listGets,
                   dataVars, markerVars>>

\* a failure path that drops the saved-list cache
savedAfterFailure_cleared(prev) == <<>>

\* the saved-list cache after a POST that did not succeed
savedAfterFailure(prev) == prev

\* an optimistic insert of the record the POST response describes
savedAfterPost_inserted(prev, created) == Append(prev, created)

\* the saved-list cache after a POST that succeeded: the response body (data)
\* is read and not used
savedAfterPost(prev, created) == prev

\* the POST answers with a success status and a JSON body: the list GET follows
PostOk ==
    /\ saveReq = "POST"
    /\ Len(serverStore) < MaxStore
    /\ serverStore' = Append(serverStore, Len(serverStore) + 1)
    /\ saveReq' = "GET"
    /\ saved' = savedAfterPost(saved, Len(serverStore) + 1)
    /\ alertMsg' = ""
    /\ last' = Step("postOk", "")
    /\ UNCHANGED <<boundaryLoaded, hintVars, revGeocodes>>
    /\ UNCHANGED <<settingsVars, gmapVars, storeVars, name, saving, listGets,
                   dataVars, markerVars>>

\* the POST answers with a non-success status: alert('Failed to save')
PostRejected ==
    /\ saveReq = "POST"
    /\ saveReq' = "none"
    /\ saved' = savedAfterFailure(saved)
    /\ alertMsg' = "Failed to save"
    /\ saving' = FALSE
    /\ last' = Step("postRejected", "")
    /\ UNCHANGED <<boundaryLoaded, hintVars, revGeocodes>>
    /\ UNCHANGED <<settingsVars, gmapVars, storeVars, name, serverStore, listGets,
                   dataVars, markerVars>>

\* the POST fails at the network level or its body is no JSON (the backend may
\* have stored the record all the same): alert('Error while saving')
PostThrows ==
    /\ saveReq = "POST"
    /\ saveReq' = "none"
    /\ \E stored \in BOOLEAN :
          IF stored
          THEN /\ Len(serverStore) < MaxStore
               /\ serverStore' = Append(serverStore, Len(serverStore) + 1)
          ELSE UNCHANGED serverStore
    /\ saved' = savedAfterFailure(saved)
    /\ alertMsg' = "Error while saving"
    /\ saving' = FALSE
    /\ last' = Step("postThrows", "")
    /\ UNCHANGED <<boundaryLoaded, hintVars, revGeocodes>>
    /\ UNCHANGED <<settingsVars, gmapVars, storeVars, name, listGets, dataVars, markerVars>>

\* the list GET of saveSelection answers: setSaved(list)
GetOk ==
    /\ saveReq = "GET"
    /\ saveReq' = "none"
    /\ saved' = serverStore
    /\ saving' = FALSE
    /\ alertMsg' = ""
    /\ last' = Step("getOk", "")
    /\ UNCHANGED <<boundaryLoaded, hintVars, revGeocodes>>
    /\ UNCHANGED <<settingsVars, gmapVars, storeVars, name, serverStore, listGets,
                   dataVars, markerVars>>

\* the list GET of saveSelection fails: alert('Error while saving')
GetThrows ==
    /\ saveReq = "GET"
    /\ saveReq' = "none"
    /\ saving' = FALSE
    /\ alertMsg' = "Error while saving"
    /\ last' = Step("getThrows", "")
    /\ UNCHANGED <<boundaryLoaded, hintVars, revGeocodes>>
    /\ UNCHANGED <<settingsVars, gmapVars, storeVars, name, saved, serverStore, listGets,
                   dataVars, markerVars>>

\* ---------------------------------------------------------- specifications
AllCodes == StateCodes \cup CountyCodes

NoEnv == [VITE_GOOGLE_MAPS_API_KEY |-> NoText, VITE_BACKEND_URL |-> NoText]
NoStored == [gmaps_api_key |-> NoText, backend_url |-> NoText]
NoParams == [gmaps_key |-> NoText, backend |-> NoText]

\* a build with a maps key and no backend: the map and its overlays
Init == InitWith([NoEnv EXCEPT !.VITE_GOOGLE_MAPS_API_KEY = <<"B">>], NoStored, NoParams)

Next ==
    \/ Mount
    \/ MapsLoaded(MaxLookups)
    \/ \E code \in AllCodes : ToggleItem(code, MaxLookups)
    \/ ClearAll(MaxLookups)
    \/ \E lv \in Levels : SetLevel(lv, MaxLookups)
    \/ \E sel \in BagToSet(geoFetches) : FetchOk(sel)
    \/ \E sel \in BagToSet(geoFetches) : FetchFail(sel)
    \/ \E code \in AllCodes : MarkerGeocodeOk(code)
    \/ \E code \in AllCodes : MarkerGeocodeFail(code)
    \/ HintExpire

Spec == Init /\ [][Next]_vars

\* the same build, with many marker lookups in flight
NextCounty ==
    \/ Mount
    \/ MapsLoaded(MaxLookupsBurst)
    \/ \E code \in AllCodes : ToggleItem(code, MaxLookupsBurst)
    \/ \E lv \in Levels : SetLevel(lv, MaxLookupsBurst)
    \/ \E code \in AllCodes : MarkerGeocodeOk(code)

SpecCounty == Init /\ [][NextCounty]_vars

\* the codes a click of this build can resolve to
ClickCodes == {"CA", "06075"}

\* the requests in flight: boundary fetches, marker lookups, reverse geocodes
Pending ==
    BagCardinality(geoFetches) + BagCardinality(markerLookups) + BagCardinality(revGeocodes)

\* the requests in flight are within the bound of SpecClicks
FewPending == Pending <= MaxPending

\* the same build, with clicks on the map
NextClicks ==
    \/ Mount
    \/ MapsLoaded(MaxPending) /\ FewPending'
    \/ \E code \in ClickCodes : ToggleItem(code, MaxPending) /\ FewPending'
    \/ ClearAll(MaxPending) /\ FewPending'
    \/ \E lv \in Levels : SetLevel(lv, MaxPending) /\ FewPending'
    \/ \E sel \in BagToSet(geoFetches) : FetchOk(sel)
    \/ \E code \in ClickCodes : MarkerGeocodeOk(code)
    \/ BaseClick /\ FewPending'
    \/ \E g \in Levels : GeocodeFailed(g)
    \/ \E g \in Levels, components \in GeocodeResults :
          GeocodeAnswered(g, components, MaxPending) /\ FewPending'
    \/ \E code \in StateCodes : PolygonClick(code, MaxPending) /\ FewPending'
    \/ HintExpire

SpecClicks == Init /\ [][NextClicks]_vars

\* the same build, with clicks on the boundary polygons while boundary
\* fetches overlap
NextPolygons ==
    \/ Mount
    \/ MapsLoaded(MaxLookupsClicks)
    \/ \E code \in StateCodes : ToggleItem(code, MaxLookupsClicks)
    \/ \E lv \in Levels : SetLevel(lv, MaxLookupsClicks)
    \/ \E sel \in BagToSet(geoFetches) : FetchOk(sel)
    \/ \E code \in StateCodes : MarkerGeocodeOk(code)
    \/ \E code \in StateCodes : PolygonClick(code, MaxLookupsClicks)
    \/ HintExpire

SpecPolygons == Init /\ [][NextPolygons]_vars

\* a build with a backend and no maps key: the save client
InitSave == InitWith([NoEnv EXCEPT !.VITE_BACKEND_URL = <<"B">>], NoStored, NoParams)

NextSave ==
    \/ Mount
    \/ \E code \in AllCodes : ToggleItem(code, MaxLookups)
    \/ ClearAll(MaxLookups)
    \/ \E lv \in Levels : SetLevel(lv, MaxLookups)
    \/ \E typed \in TextsUpTo(Chars, MaxNameLen) : SetName(typed)
    \/ SaveSelection
    \/ PostOk
    \/ PostRejected
    \/ PostThrows
    \/ GetOk
    \/ GetThrows
    \/ LoadSavedOk
    \/ LoadSavedFail

SpecSave == InitSave /\ [][NextSave]_vars

\* a request of saveSelection is answered or fails
SaveResponse == PostOk \/ PostRejected \/ PostThrows \/ GetOk \/ GetThrows

\* texts typed into the backend URL input: blank, spaces only, a URL
BackendEdits == {NoText, <<" ">>, <<"x">>}

\* texts typed into the name input: spaces only, a name
NameEdits == {<<" ">>, <<"x">>}

\* the save client with edits of the backend URL
NextSaveEdit ==
    \/ Mount
    \/ \E code \in StateCodes : ToggleItem(code, MaxLookups)
    \/ ClearAll(MaxLookups)
    \/ \E typed \in NameEdits : SetName(typed)
    \/ \E typed \in BackendEdits : SetBackendUrl(typed)
    \/ SaveSelection
    \/ PostOk
    \/ PostRejected
    \/ PostThrows
    \/ GetOk
    \/ GetThrows
    \/ LoadSavedOk
    \/ LoadSavedFail

\* every fetch of saveSelection settles: its promise resolves or rejects
SpecSaveFair == InitSave /\ [][NextSaveEdit]_vars /\ WF_vars(SaveResponse)

\* the settings resolver alone: every combination of the three sources
InitSettings ==
    \E bk \in EnvValues, bb \in EnvValues, pk \in StoredValues, pb \in StoredValues,
       uk \in UrlValues, ub \in UrlValues :
        InitWith([VITE_GOOGLE_MAPS_API_KEY |-> bk, VITE_BACKEND_URL |-> bb],
                 [gmaps_api_key |-> pk, backend_url |-> pb],
                 [gmaps_key |-> uk, backend |-> ub])

NextSettings ==
    \/ Mount
    \/ \E typed \in TextsUpTo(Chars, MaxTypedLen) : SetApiKey(typed)
    \/ \E typed \in TextsUpTo(Chars, MaxTypedLen) : SetBackendUrl(typed)
    \/ LoadSavedOk
    \/ LoadSavedFail

SpecSettings == InitSettings /\ [][NextSettings]_vars

\* B if present, else P if present, else U if present, else the empty text
Precedence(B, P, U) == IF B # <<>> THEN B ELSE IF P # <<>> THEN P ELSE IF U # <<>> THEN U ELSE <<>>

\* C3: on the first render each of apiKey and backendUrl is resolved as the
\* build-time value if present, else the persisted value if present, else the
\* URL parameter (gmaps_key, backend) if present, else the empty text.
ConfigPrecedence ==
    [][(~mounted /\ mounted') =>
          /\ apiKey' = Precedence(env.VITE_GOOGLE_MAPS_API_KEY, localStorage.gmaps_api_key,
                                  params.gmaps_key)
          /\ backendUrl' = Precedence(env.VITE_BACKEND_URL, localStorage.backend_url,
                                      params.backend)]_vars


\* ------------------------------------------------------------------ claims
Members(sel) == Range(sel)

InFlight(bag) == BagCardinality(bag)

\* C1: toggling the same code twice in a row, with no other step in between,
\* gives a selection with exactly the members it had before the two toggles,
\* whether or not the code was selected.
ToggleTwiceRestores ==
    [][(last.op = "toggle" /\ last'.op = "toggle" /\ last'.code = last.code)
          => /\ Members(selectedItems') = Members(last.pre)
             /\ Len(selectedItems') = Len(last.pre)]_vars

\* a code that was selected among others has been toggled off and on again
ToggleTwiceReached ==
    /\ last.op = "toggle"
    /\ last.twice
    /\ last.code \in Members(selectedItems)
    /\ Len(selectedItems) >= 2
    /\ selectedItems[1] # last.code

\* C2: a change of level through the level selector leaves the selection
\* empty, whatever it held before.
LevelChangeClears == [][level' # level => selectedItems' = <<>>]_vars

\* the level has just been changed with codes selected
LevelChangeReached ==
    /\ last.op = "setLevel"
    /\ last.pre # <<>>
    /\ level = "county"
    /\ selectedItems = <<>>

\* C4: at county level no more than 12 marker lookups are in flight at once.
LookupsAtMostCap == level = "county" => InFlight(markerLookups) <= MarkerCap

\* C5: at county level no more than 12 markers are on the map, and a selected
\* code beyond the first 12 has no marker.
MarkersAtMostCap ==
    level = "county" =>
        /\ BagCardinality(drawingLayer) <= MarkerCap
        /\ \A i \in (MarkerCap + 1)..Len(selectedItems) : ~BagIn(selectedItems[i], drawingLayer)

\* C6: at county level every marker on the map is titled with a code that is
\* in the selection.
MarkersOnlyForSelected ==
    level = "county" => \A code \in BagToSet(drawingLayer) : code \in Members(selectedItems)

\* C7: no boundary polygons are on the map at county level, and no county
\* markers are on the map at state level.
ModesNeverOverlap ==
    /\ ~(level = "county" /\ dataFeatures > 0)
    /\ ~(level = "state" /\ drawingLayer # EmptyBag)

Blank(n) == \A i \in 1..Len(n) : n[i] = " "

\* C9: a save attempted while the name is empty or only whitespace issues no
\* backend request and leaves the saving flag and the saved-list cache as
\* they are.
BlankNameSavesNothing ==
    [][(last'.op = "saveSelection" /\ Blank(name))
          => /\ saveReq' = saveReq
             /\ listGets' = listGets
             /\ serverStore' = serverStore
             /\ saving' = saving
             /\ saved' = saved]_vars

\* Save has just been clicked with a name of whitespace only
BlankNameSaveReached ==
    /\ last.op = "saveSelection"
    /\ name # <<>>
    /\ Blank(name)
    /\ selectedItems # <<>>

\* C10: when the POST answers with a non-success status or fails at the
\* network level, a failure notice is raised, and neither that step nor the
\* start of the save changes the saved-list cache, the selection or the level.
SaveFailureLeavesStore ==
    [][/\ last'.op \in {"postRejected", "postThrows"}
          => /\ alertMsg' \in {"Failed to save", "Error while saving"}
             /\ saved' = saved /\ selectedItems' = selectedItems /\ level' = level
       /\ last'.op = "saveSelection"
          => (saved' = saved /\ selectedItems' = selectedItems /\ level' = level)]_vars

\* a POST was rejected while the saved-list cache held a record
SaveFailureReached ==
    /\ last.op = "postRejected"
    /\ alertMsg = "Failed to save"
    /\ saved # <<>>
    /\ selectedItems # <<>>

\* C11: when the save POST succeeds a list GET is issued after its response
\* and the saved-list cache is left as it was until that GET answers, which
\* replaces it by the records of the backend; the list GET of a save is issued
\* by nothing but a successful POST, the cache changes by nothing but the
\* answer of a list GET, and a POST that did not succeed issues no GET and
\* ends the save.
GetRefreshAfterPostOnly ==
    [][/\ (last'.op = "postOk" => saveReq' = "GET" /\ saved' = saved)
       /\ (saveReq' = "GET" => last'.op = "postOk" \/ saveReq = "GET")
       /\ (last'.op = "getOk" => saveReq = "GET" /\ saved' = serverStore)
       /\ (saved' # saved => last'.op \in {"getOk", "loadSavedOk"})
       /\ (last'.op \in {"postRejected", "postThrows"} =>
              saveReq' = "none" /\ saved' = saved)]_vars

\* a save whose list GET has answered with a record the POST created
GetRefreshReached ==
    /\ last.op = "getOk"
    /\ Len(saved) > 0
    /\ saved = serverStore

\* C12: when the reverse geocode of a base-map click fails (status not OK or
\* no result) or resolves to no code (no state component, a county label that
\* is not in the table), a hint is shown and the selection is left as it was.
HintOnUnresolvedClick ==
    [][last'.op \in {"geocodeFailed", "geocodeUnresolved"} =>
          hint' # "" /\ selectedItems' = selectedItems]_vars

\* C13: a boundary fetch that fails shows a hint with a timer that clears it,
\* leaves the selection as it was and leaves the boundary data marked not
\* loaded; the synchronization pass at state level that follows the failure
\* issues the boundary fetch again.
FetchFailureAllowsRetry ==
    [][/\ (last'.op = "fetchFail" =>
              /\ hint' # ""
              /\ hintTimers' = hintTimers + 1
              /\ selectedItems' = selectedItems
              /\ (~geojsonLoadedRef => ~geojsonLoadedRef'))
       /\ (/\ last.op = "fetchFail"
           /\ ~geojsonLoadedRef
           /\ last'.op \in {"toggle", "clearAll", "setLevel"}
           /\ level' = "state"
           => BagCardinality(geoFetches') = BagCardinality(geoFetches) + 1)]_vars

\* the hint of a failed boundary fetch is showing, no boundary fetch has ever
\* succeeded, and the toggle that followed has issued the one fetch in flight
FetchRetryReached ==
    /\ hint = "Could not load state polygons. Check your network and try again."
    /\ ~boundaryLoaded /\ ~geojsonLoadedRef
    /\ level = "state"
    /\ last.op = "toggle"
    /\ geoFetches = OneOf(selectedItems)

\* C14: once the component has mounted, after every step the persisted value
\* of a setting is the value the setting now holds when that value is not
\* empty, and the value persisted before the step when it is empty (so it is
\* always the most recent non-empty value the setting has held, and a blank
\* neither changes nor removes it); an edit of one setting leaves the persisted
\* value of the other as it was.
PersistNonEmptyOnly ==
    [][mounted' =>
          /\ localStorage'.gmaps_api_key =
                 IF Truthy(apiKey') THEN apiKey' ELSE localStorage.gmaps_api_key
          /\ localStorage'.backend_url =
                 IF Truthy(backendUrl') THEN backendUrl' ELSE localStorage.backend_url
          /\ (last'.op = "setApiKey" =>
                 localStorage'.backend_url = localStorage.backend_url)
          /\ (last'.op = "setBackendUrl" =>
                 localStorage'.gmaps_api_key = localStorage.gmaps_api_key)]_vars

\* the API key input has just been blanked and the key typed before it is
\* still the persisted one
PersistBlankReached ==
    /\ last.op = "setApiKey"
    /\ apiKey = NoText
    /\ localStorage.gmaps_api_key = <<"x", "x">>

\* C15: the selection never holds a code twice, whatever checklist toggles,
\* chip removals, polygon clicks, base-map click resolutions (also two for the
\* same code one after the other), 'Clear all' and level changes came before.
NoDuplicateCodes == Cardinality(Range(selectedItems)) = Len(selectedItems)

\* two reverse geocodes in flight at once have resolved to the same code one
\* after the other, and the code is in the selection
DoubleResolutionReached ==
    /\ last.op = "geocodeToggled"
    /\ last.twice
    /\ last.code \in Range(selectedItems)

\* C16: in every reachable state the selection holds codes of the current
\* level only: state codes while level = state, county codes while level =
\* county, also when a reverse geocode or a boundary load issued under one
\* level completes under the other.
SelectionScopedToLevel ==
    \A c \in Range(selectedItems) :
        IF level = "state" THEN c \in StateCodes ELSE c \in CountyCodes

\* C17: at state level, once the boundary data is marked loaded and no
\* boundary fetch is in flight, the boundary polygons are drawn and the style
\* function is the one derived from the current selection.
OverlayMatchesStore ==
    (mapsLoaded /\ level = "state" /\ geojsonLoadedRef /\ geoFetches = EmptyBag) =>
        /\ dataFeatures >= 1
        /\ dataStyle = StyleOf(selectedItems)

\* C18: one click on a state polygon at state level flips the membership of
\* the polygon's code exactly once: the code is in the selection after the
\* click exactly when it was not in it before.
PolygonClickFlipsOnce ==
    [][(last'.op = "polygonClick" /\ level = "state") =>
          ((last'.code \in Range(selectedItems')) # (last'.code \in Range(selectedItems)))]_vars

\* C19: at most one polygon click listener is registered on map.data at any
\* time, and none while level = county.
AtMostOnePolygonListener ==
    /\ dataListeners <= 1
    /\ (level = "county" => dataListeners = 0)

\* C20: saving is true exactly while a request of saveSelection is in flight;
\* a save starts only while saving is false (so at most one is in flight), the
\* selection is not empty and backendUrl is not empty; and every save that has
\* started, whatever the outcome of its POST and of its list GET, leads to
\* saving being false again.
OneSaveAndSavingResets ==
    /\ [](saving <=> saveReq # "none")
    /\ [][(last'.op = "saveSelection" /\ saveReq' = "POST") =>
            /\ ~saving
            /\ saveReq = "none"
            /\ Len(selectedItems) # 0
            /\ Truthy(backendUrl)]_vars
    /\ [][(saving /\ ~saving') =>
            last'.op \in {"postRejected", "postThrows", "getOk", "getThrows"}]_vars
    /\ (saving ~> ~saving)

\* a save whose POST succeeded and whose list GET failed has ended with the
\* saving flag reset, after the backend URL had been blanked and typed again
SavingResetReached ==
    /\ last.op = "getThrows"
    /\ ~saving
    /\ backendUrl = <<"x">>

====
